---------------------------- MODULE Spec2Model ----------------------------
(***************************************************************************)
(* A model of the deep_research quickstart: the configuration code of      *)
(* agent.py and agent_with_memory.py (model selection, prompt assembly,    *)
(* the create_deep_agent call, the persistent checkpointer) and the two    *)
(* command-line scripts demo_memory.py and langgraph_client_example.py.    *)
(*                                                                         *)
(* Text that the code inspects character by character (.lower(), .strip(), *)
(* strftime) is a sequence of one-character strings.  Text that the code   *)
(* only passes along (thread ids, queries, model names) is an opaque       *)
(* string.                                                                 *)
(***************************************************************************)
EXTENDS Integers, Sequences, FiniteSets, TLC

VARIABLES
    \* ---- configuration (agent.py, agent_with_memory.py module level) ----
    env,          \* os.environ: variable name -> {} (unset) or {value}
    today,        \* datetime.now(): [y, m, d]
    templates,    \* research_agent.prompts: the three template texts
    constructed,  \* module -> sequence of chat-model backends constructed
    created,      \* module -> sequence of create_deep_agent calls made
    \* ---- the scripts, one process after another ----
    script,       \* "none" | "demo" (demo_memory.py) | "client"
    pc,           \* position of the running script
    nruns,        \* number of processes started so far
    disk,         \* file name -> {} (no such file) or {pickled dict}
    storage,      \* the checkpointer's in-process dict: thread -> messages
    earlier,      \* storage as it was when the previous process ended
    server,       \* the LangGraph server's threads: thread -> messages
    runs,         \* runs this process created: [thread, query, status]
    ran,          \* demos/examples main has called, in order
    todo,         \* demos/examples main still has to call
    ip,           \* index of the next statement of the running demo/example
    choice,       \* the line typed at the menu, {} before the menu
    thread_id,    \* interactive loop: the session's thread id
    first_query,  \* interactive loop (demo_memory): the flag
    line,         \* interactive session: the last line input() returned
    nlines,       \* number of input() calls the process has made
    nqlines,      \* number of query lines typed at the interactive prompt
    nagent,       \* number of agent calls made from the interactive loop
    napi,         \* number of framework calls the process has made
    nlist,        \* number of client.threads.list() calls that returned
    lastCall,     \* the last framework call: <<>> or <<[fn, thread, query, outcome]>>
    printed,      \* number of errors an except block has printed
    exitStatus    \* {} while running, else {status}

cfgVars == <<env, today, templates, constructed, created>>
procVars == <<runs, ran, todo, ip, choice, thread_id, first_query, line,
              nlines, nqlines, nagent, napi, nlist, lastCall, printed,
              exitStatus>>
runVars == <<script, pc, nruns, disk, storage, earlier, server, procVars>>
vars == <<cfgVars, runVars>>

---------------------------------------------------------------------------
\* Bounds of the model.
MaxSegs == 2        \* segments (literals, fields) per formatted template
MaxRuns == 2        \* processes started
MaxInputs == 3      \* lines typed at the prompt of one interactive session

---------------------------------------------------------------------------
\* Text helpers.

RECURSIVE Concat(_)
\* the concatenation of a sequence of sequences
Concat(ss) == IF ss = <<>> THEN <<>> ELSE Head(ss) \o Concat(Tail(ss))

RECURSIVE Repeat(_, _)
\* Python's  s * n
Repeat(s, n) == IF n <= 0 THEN <<>> ELSE s \o Repeat(s, n - 1)

UpperLetters == <<"A","B","C","D","E","F","G","H","I","J","K","L","M",
                  "N","O","P","Q","R","S","T","U","V","W","X","Y","Z">>
LowerLetters == <<"a","b","c","d","e","f","g","h","i","j","k","l","m",
                  "n","o","p","q","r","s","t","u","v","w","x","y","z">>

\* str.lower() on one character
LowerChar(c) ==
    IF \E i \in 1..Len(UpperLetters) : UpperLetters[i] = c
    THEN LowerLetters[CHOOSE i \in 1..Len(UpperLetters) : UpperLetters[i] = c]
    ELSE c

\* str.lower()
Lower(s) == [i \in 1..Len(s) |-> LowerChar(s[i])]

UpperChar(c) ==
    IF \E i \in 1..Len(LowerLetters) : LowerLetters[i] = c
    THEN UpperLetters[CHOOSE i \in 1..Len(LowerLetters) : LowerLetters[i] = c]
    ELSE c

Whitespace == {" ", "\t", "\n"}

RECURSIVE LStrip(_)
LStrip(s) == IF s # <<>> /\ Head(s) \in Whitespace THEN LStrip(Tail(s)) ELSE s

RECURSIVE RStrip(_)
RStrip(s) == IF s # <<>> /\ s[Len(s)] \in Whitespace
             THEN RStrip(SubSeq(s, 1, Len(s) - 1)) ELSE s

\* str.strip()
Strip(s) == RStrip(LStrip(s))

DigitChars == <<"0","1","2","3","4","5","6","7","8","9">>

RECURSIVE Str(_)
\* str(n) for a natural number
Str(n) == IF n < 10 THEN <<DigitChars[n + 1]>>
          ELSE Str(n \div 10) \o <<DigitChars[(n % 10) + 1]>>

\* "%0<w>d" % n
ZeroPad(n, w) == Repeat(<<"0">>, w - Len(Str(n))) \o Str(n)

\* os.getenv(name, default)
Getenv(name, default) ==
    IF env[name] = {} THEN default ELSE CHOOSE v \in env[name] : TRUE


---------------------------------------------------------------------------
\* Configuration inputs: the environment, the clock, the prompt templates.

\* every spelling of word w that differs from it only in letter case
CaseVariants(w) ==
    {[i \in 1..Len(w) |-> IF i \in U THEN UpperChar(w[i]) ELSE w[i]] :
        U \in SUBSET (1..Len(w))}

OllamaName == <<"o","l","l","a","m","a">>
AnthropicName == <<"a","n","t","h","r","o","p","i","c">>
OpenrouterName == <<"o","p","e","n","r","o","u","t","e","r">>

\* values of MODEL_PROVIDER: unset, the three names in every letter case,
\* and values that are none of them
ProviderValues ==
    {{}} \cup {{v} : v \in CaseVariants(OllamaName)}
         \cup {{v} : v \in CaseVariants(AnthropicName)}
         \cup {{OpenrouterName}, {<<"O","p","e","n","R","o","u","t","e","r">>},
               {<<>>}, {<<"o","p","e","n","a","i">>},
               {<<" ">> \o OllamaName}, {OllamaName \o <<" ">>},
               {OllamaName \o <<"s">>}, {<<"o","l","a","m","a">>},
               {<<"c","l","a","u","d","e">>},
               {<<"A","N","T","H","R","O","P","I","C","\n">>}}

EnvNames == {"MODEL_PROVIDER", "OLLAMA_MODEL", "OLLAMA_BASE_URL",
             "ANTHROPIC_MODEL", "OPENROUTER_MODEL", "OPENROUTER_API_KEY"}

Environments ==
    {[n \in EnvNames |-> IF n = "MODEL_PROVIDER" THEN p ELSE o[n]] :
        p \in ProviderValues,
        o \in [EnvNames \ {"MODEL_PROVIDER"} -> {{}, {"custom"}}]}

UnsetEnv == [n \in EnvNames |-> {}]

Dates == {[y |-> 2025, m |-> 1, d |-> 9], [y |-> 2026, m |-> 11, d |-> 2],
          [y |-> 1999, m |-> 12, d |-> 31], [y |-> 2030, m |-> 10, d |-> 10]}

\* A template is written as a sequence of segments and rendered to the text
\* the prompts module holds: a literal brace is doubled, a field is {name}.
Lit(tok) == [kind |-> "lit", tok |-> tok]
Field(name) == [kind |-> "field", tok |-> name]

RenderSeg(g) ==
    IF g.kind = "field" THEN <<"{", g.tok, "}">>
    ELSE IF g.tok \in {"{", "}"} THEN <<g.tok, g.tok>>
    ELSE <<g.tok>>

Render(segs) == Concat([i \in 1..Len(segs) |-> RenderSeg(segs[i])])

SeqsUpTo(S, n) == UNION {[1..k -> S] : k \in 0..n}

DelegationSegs ==
    SeqsUpTo({Lit("D1"), Lit("{"), Lit("}"),
              Field("max_concurrent_research_units"),
              Field("max_researcher_iterations")}, MaxSegs)

ResearcherSegs ==
    SeqsUpTo({Lit("R1"), Lit("R2"), Lit("{"), Lit("}"), Field("date")}, MaxSegs)

\* RESEARCH_WORKFLOW_INSTRUCTIONS is never formatted: braces in it stay.
WorkflowTexts == {<<"W1">>, <<"W1", "W2">>, <<"W1", "{", "W2", "}">>, <<>>,
                  <<"W1", "{", "{", "=", "\n">>}

DefaultTemplates ==
    [workflow |-> <<"W1", "W2">>,
     delegation |-> Render(<<Lit("D1"), Field("max_concurrent_research_units"),
                             Lit("D2"), Field("max_researcher_iterations")>>),
     researcher |-> Render(<<Lit("R1"), Field("date"), Lit("R2")>>)]

---------------------------------------------------------------------------
\* agent.py / agent_with_memory.py, module level.

max_concurrent_research_units == 3
max_researcher_iterations == 3
SeparatorWidth == 80

\* datetime.now().strftime("%Y-%m-%d")
Strftime(t) ==
    ZeroPad(t.y, 4) \o <<"-">> \o ZeroPad(t.m, 2) \o <<"-">> \o ZeroPad(t.d, 2)

current_date == Strftime(today)

RECURSIVE FormatFrom(_, _, _)
\* str.format(**kw) from token i on: {{ and }} are literal braces, {name}
\* is replaced by kw[name]
FormatFrom(t, i, kw) ==
    IF i > Len(t) THEN <<>>
    ELSE IF t[i] = "{" /\ i < Len(t) /\ t[i + 1] = "{"
         THEN <<"{">> \o FormatFrom(t, i + 2, kw)
    ELSE IF t[i] = "{"
         THEN kw[t[i + 1]] \o FormatFrom(t, i + 3, kw)
    ELSE IF t[i] = "}"
         THEN <<"}">> \o FormatFrom(t, i + 2, kw)
    ELSE <<t[i]>> \o FormatFrom(t, i + 1, kw)

Format(t, kw) == FormatFrom(t, 1, kw)

LimitKwargs ==
    [n \in {"max_concurrent_research_units", "max_researcher_iterations"} |->
        IF n = "max_concurrent_research_units"
        THEN Str(max_concurrent_research_units)
        ELSE Str(max_researcher_iterations)]

\* INSTRUCTIONS with the delegation template left unformatted
INSTRUCTIONS_Unformatted ==
    templates.workflow
    \o <<"\n", "\n">>
    \o Repeat(<<"=">>, SeparatorWidth)
    \o <<"\n", "\n">>
    \o templates.delegation

\* agent.py: INSTRUCTIONS
INSTRUCTIONS ==
    templates.workflow
    \o <<"\n", "\n">>
    \o Repeat(<<"=">>, SeparatorWidth)
    \o <<"\n", "\n">>
    \o Format(templates.delegation, LimitKwargs)

\* agent_with_memory.py: INSTRUCTIONS
MemINSTRUCTIONS ==
    templates.workflow
    \o <<"\n", "\n">>
    \o Repeat(<<"=">>, SeparatorWidth)
    \o <<"\n", "\n">>
    \o Format(templates.delegation, LimitKwargs)

ResearcherDescription == "Delegate research tasks to this researcher sub-agent."

\* agent.py: research_sub_agent
research_sub_agent ==
    [name |-> "researcher",
     description |-> ResearcherDescription,
     system_prompt |-> Format(templates.researcher,
                              [n \in {"date"} |-> current_date]),
     tools |-> <<"tavily_search", "think_tool">>]

\* agent_with_memory.py: research_sub_agent
Mem_research_sub_agent ==
    [name |-> "researcher",
     description |-> ResearcherDescription,
     system_prompt |-> Format(templates.researcher,
                              [n \in {"date"} |-> current_date]),
     tools |-> <<"tavily_search", "think_tool">>]

\* The three constructor calls; a keyword that is not passed is {}.
Backend(ctor, model, model_provider, base_url, api_key, headers) ==
    [ctor |-> ctor, model |-> model, model_provider |-> model_provider,
     base_url |-> base_url, api_key |-> api_key, temperature |-> "0.0",
     headers |-> headers]

OllamaBackend ==
    Backend("ChatOllama", <<Getenv("OLLAMA_MODEL", "llama3.2")>>, {},
            {Getenv("OLLAMA_BASE_URL", "http://localhost:11434")}, {}, {})

AnthropicBackend ==
    Backend("init_chat_model",
            <<"anthropic:", Getenv("ANTHROPIC_MODEL", "claude-sonnet-4-5-20250929")>>,
            {}, {}, {}, {})

OpenRouterBackend ==
    Backend("init_chat_model",
            <<Getenv("OPENROUTER_MODEL", "openai/gpt-oss-120b:free")>>,
            {"openai"}, {"https://openrouter.ai/api/v1"},
            env["OPENROUTER_API_KEY"],
            {"HTTP-Referer", "X-Title"})

\* model_provider without .lower()
model_provider_CaseSensitive == Getenv("MODEL_PROVIDER", OpenrouterName)

\* agent.py: model_provider and the if/elif/else that builds `model`
model_provider == Lower(Getenv("MODEL_PROVIDER", OpenrouterName))

model ==
    IF model_provider = OllamaName THEN OllamaBackend
    ELSE IF model_provider = AnthropicName THEN AnthropicBackend
    ELSE OpenRouterBackend

\* agent_with_memory.py: model_provider and the if/elif/else
Mem_model_provider == Lower(Getenv("MODEL_PROVIDER", OpenrouterName))

Mem_model ==
    IF Mem_model_provider = OllamaName THEN OllamaBackend
    ELSE IF Mem_model_provider = AnthropicName THEN AnthropicBackend
    ELSE OpenRouterBackend

\* a create_deep_agent(...) call; checkpointer is {} when not passed
CreateCall(m, tools, prompt, subagents, checkpointer) ==
    [model |-> m, tools |-> tools, system_prompt |-> prompt,
     subagents |-> subagents, checkpointer |-> checkpointer]

\* the call of "OPTION 2": the main agent is given the search tools
AgentCreateCall_DirectTools ==
    CreateCall(model, <<"tavily_search", "think_tool">>, INSTRUCTIONS,
               <<research_sub_agent>>, {})

\* agent.py: agent = create_deep_agent(...)
AgentCreateCall ==
    CreateCall(model, <<>>, INSTRUCTIONS, <<research_sub_agent>>, {})

\* agent_with_memory.py: agent = create_deep_agent(..., checkpointer=...)
MemAgentCreateCall ==
    CreateCall(Mem_model, <<>>, MemINSTRUCTIONS, <<Mem_research_sub_agent>>,
               {"research_checkpoints.db"})

Modules == {"agent", "agent_with_memory"}


---------------------------------------------------------------------------
\* The framework as the scripts use it.  Thread ids and queries are token
\* sequences: a constant of the source is one token, a typed line is its
\* characters.

Get(f, t) == IF t \in DOMAIN f THEN f[t] ELSE <<>>
Put(f, t, v) == [x \in DOMAIN f \cup {t} |-> IF x = t THEN v ELSE f[x]]
Drop(f, t) == [x \in DOMAIN f \ {t} |-> f[x]]
NoThreads == [x \in {} |-> <<>>]

\* a message of a thread's state, with the process that wrote it
UserMsg(q) == [role |-> "user", text |-> q, run |-> nruns]
AiMsg(q) == [role |-> "ai", text |-> q, run |-> nruns]

\* how a framework call that runs the agent can end: it returns, it raises
\* before anything was checkpointed, or it raises after the input message
\* was checkpointed
Outcomes == {"ok", "raise", "raise_after_input"}
ReadOutcomes == {"ok", "raise"}

\* agent.invoke({"messages": [("user", query)]}, config={thread_id}) and a
\* server run on a thread: the messages are appended to that thread's state
AgentInvoke(store, tid, query, outcome) ==
    CASE outcome = "ok" ->
           Put(store, tid, Get(store, tid) \o <<UserMsg(query), AiMsg(query)>>)
      [] outcome = "raise_after_input" ->
           Put(store, tid, Get(store, tid) \o <<UserMsg(query)>>)
      [] OTHER -> store

DbPath == "./research_checkpoints.db"
DbFiles == {DbPath, "./research_checkpoints.db.writes",
            "./research_checkpoints.db.blobs"}

\* PersistentDict(filename=f) followed by  if os.path.exists(f): d.load()
LoadIfExists(f) == IF disk[f] = {} THEN NoThreads ELSE CHOOSE d \in disk[f] : TRUE

\* agent_with_memory.py: get_persistent_checkpointer(db_path).  The saver's
\* dict is what the factory returns: `storage` when it is non-empty, else a
\* new empty PersistentDict.  No statement of the module or of the scripts
\* calls sync() or close() on the dicts or leaves a `with` block of the
\* saver, so no action of this model writes `disk`.
get_persistent_checkpointer(db_path) ==
    LET st == LoadIfExists(db_path)
    IN  IF DOMAIN st # {} THEN st ELSE NoThreads

\* agent_with_memory.py: run_new_conversation(query, thread_id)
run_new_conversation(query, tid, outcome) ==
    AgentInvoke(storage, tid, query, outcome)

\* resume_conversation with its two arguments taken in the order of
\* run_new_conversation(query, thread_id)
resume_conversation_Swapped(tid, new_query, outcome) ==
    AgentInvoke(storage, new_query, tid, outcome)

\* agent_with_memory.py: resume_conversation(thread_id, new_query)
resume_conversation(tid, new_query, outcome) ==
    AgentInvoke(storage, tid, new_query, outcome)

Call(fn, tid, query, outcome) ==
    <<[fn |-> fn, thread |-> tid, query |-> query, outcome |-> outcome]>>

Stmt(fn, tid, query) == [fn |-> fn, thread |-> tid, query |-> query]

---------------------------------------------------------------------------
\* demo_memory.py: the statements of the demos.

demo_basic_persistence ==
    <<Stmt("run_new_conversation", <<"demo-persistence-001">>,
           <<"What is quantum computing? Give me a brief overview.">>),
      Stmt("resume_conversation", <<"demo-persistence-001">>,
           <<"What are the main applications?">>)>>

demo_multiple_threads ==
    <<Stmt("run_new_conversation", <<"topic-quantum">>,
           <<"Brief history of quantum computing">>),
      Stmt("run_new_conversation", <<"topic-ai">>,
           <<"Brief history of artificial intelligence">>),
      Stmt("resume_conversation", <<"topic-quantum">>,
           <<"Who are the key researchers?">>)>>

demo_history_inspection ==
    <<Stmt("run_new_conversation", <<"demo-inspection-001">>,
           <<"Tell me about LangGraph">>),
      Stmt("resume_conversation", <<"demo-inspection-001">>,
           <<"What are its main features?">>),
      Stmt("list_conversation_history", <<"demo-inspection-001">>, <<>>),
      Stmt("get_conversation_state", <<"demo-inspection-001">>, <<>>)>>

\* the statements that come before the input loop of interactive_session
DemoBody(n) ==
    CASE n = 1 -> demo_basic_persistence
      [] n = 2 -> demo_multiple_threads
      [] n = 3 -> demo_history_inspection
      [] OTHER -> <<>>

\* langgraph_client_example.py: the statements of the examples.

example_basic_thread ==
    <<Stmt("get_client", <<>>, <<>>),
      Stmt("runs.create", <<"example-basic-001">>,
           <<"What is quantum computing? Give a brief overview.">>),
      Stmt("runs.wait", <<"example-basic-001">>, <<>>),
      Stmt("runs.create", <<"example-basic-001">>,
           <<"What are its main applications?">>),
      Stmt("runs.wait", <<"example-basic-001">>, <<>>)>>

example_streaming ==
    <<Stmt("get_client", <<>>, <<>>),
      Stmt("runs.stream", <<"example-streaming-001">>,
           <<"Tell me about LangGraph">>)>>

example_thread_inspection ==
    <<Stmt("get_client", <<>>, <<>>),
      Stmt("runs.create", <<"example-inspect-001">>,
           <<"Research artificial intelligence">>),
      Stmt("runs.wait", <<"example-inspect-001">>, <<>>),
      Stmt("threads.get_state", <<"example-inspect-001">>, <<>>)>>

ExampleThreads ==
    <<<<<<"quantum-topic">>, <<"What is quantum computing?">>>>,
      <<<<"ai-topic">>, <<"What is artificial intelligence?">>>>,
      <<<<"blockchain-topic">>, <<"What is blockchain?">>>>>>

\* the for loop over `threads`, unrolled
example_multiple_threads ==
    <<Stmt("get_client", <<>>, <<>>)>>
    \o Concat([i \in 1..Len(ExampleThreads) |->
                <<Stmt("runs.create", ExampleThreads[i][1], ExampleThreads[i][2]),
                  Stmt("runs.wait", ExampleThreads[i][1], <<>>)>>])
    \o <<Stmt("threads.list", <<>>, <<>>)>>

example_thread_cleanup ==
    <<Stmt("get_client", <<>>, <<>>),
      Stmt("runs.create", <<"temp-thread-to-delete">>, <<"Hello">>),
      Stmt("runs.wait", <<"temp-thread-to-delete">>, <<>>),
      Stmt("threads.list", <<>>, <<>>),
      Stmt("threads.delete", <<"temp-thread-to-delete">>, <<>>),
      Stmt("threads.list", <<>>, <<>>)>>

\* the statement before the input loop of example_interactive
example_interactive_head == <<Stmt("get_client", <<>>, <<>>)>>

ExampleBody(n) ==
    CASE n = 1 -> example_basic_thread
      [] n = 2 -> example_streaming
      [] n = 3 -> example_thread_inspection
      [] n = 4 -> example_multiple_threads
      [] n = 5 -> example_thread_cleanup
      [] n = 6 -> example_interactive_head
      [] OTHER -> <<>>

Body(n) == IF script = "demo" THEN DemoBody(n) ELSE ExampleBody(n)

\* the number of the interactive demo/example of the running script
InteractiveNo == IF script = "demo" THEN 4 ELSE 6

\* the demo/example main is executing
Current == ran[Len(ran)]

\* client.runs.create(assistant_id, thread_id, input): a new pending run
RunsCreate(rs, tid, query) ==
    Append(rs, [thread |-> tid, query |-> query, status |-> "pending"])

\* a wait that returns while the run is still pending
RunsWait_NoBlock(rs, i) == rs

\* client.runs.wait(run['run_id']) returns when the run has completed
RunsWait(rs, i) == [rs EXCEPT ![i].status = "success"]

\* a wait or a stream that raises: the run has ended for the script
RunsFail(rs, i) == [rs EXCEPT ![i].status = "error"]

\* client.threads.delete(thread_id)
ThreadsDelete(srv, tid) == Drop(srv, tid)

Pending == {i \in 1..Len(runs) : runs[i].status = "pending"}

---------------------------------------------------------------------------
\* Console input.

QuitWord == <<"q","u","i","t">>
StateWord == <<"s","t","a","t","e">>
HistoryWord == <<"h","i","s","t","o","r","y">>

\* lines typed at a menu
MenuLines ==
    {<<"1">>, <<"2">>, <<"3">>, <<"4">>, <<"5">>, <<"6">>, <<"7">>, <<"8">>,
     <<"q">>, <<"Q">>, <<>>, <<" ", "5", " ">>, <<"7", "\t">>, <<"5", "5">>,
     <<"x">>}

\* lines typed at "Enter thread ID"
ThreadLines == {<<>>, <<" ", " ">>, <<" ", "t", "1", " ">>}

\* lines typed at the "You:" prompt
InputLines ==
    {<<>>, <<" ">>, QuitWord, <<" ", "Q", "u", "i", "t", " ">>, StateWord,
     <<"S", "T", "A", "T", "E", " ">>, HistoryWord,
     <<"H", "i", "s", "t", "o", "r", "y">>, <<"a">>, <<" ", "B", " ">>}


---------------------------------------------------------------------------
\* Initial states.

InitRun ==
    /\ script = "none" /\ pc = "idle" /\ nruns = 0
    /\ disk = [f \in DbFiles |-> {}]
    /\ storage = NoThreads /\ earlier = NoThreads /\ server = NoThreads
    /\ runs = <<>> /\ ran = <<>> /\ todo = <<>> /\ ip = 0 /\ choice = {}
    /\ thread_id = <<>> /\ first_query = FALSE /\ line = <<>>
    /\ nlines = 0 /\ nqlines = 0 /\ nagent = 0 /\ napi = 0 /\ nlist = 0
    /\ lastCall = <<>> /\ printed = 0 /\ exitStatus = {}

NothingLoaded ==
    /\ constructed = [m \in Modules |-> <<>>]
    /\ created = [m \in Modules |-> <<>>]

\* the scripts run with the environment unset and the shipped templates
Init ==
    /\ env = UnsetEnv
    /\ today = [y |-> 2026, m |-> 11, d |-> 2]
    /\ templates = DefaultTemplates
    /\ NothingLoaded
    /\ InitRun

\* the configuration code is run on every environment, and on every
\* delegation template, researcher template, workflow text and date
InitConfig ==
    /\ \/ /\ env \in Environments
          /\ today = [y |-> 2026, m |-> 11, d |-> 2]
          /\ templates = DefaultTemplates
       \/ /\ env = UnsetEnv
          /\ today = [y |-> 2026, m |-> 11, d |-> 2]
          /\ \E w \in WorkflowTexts, g \in DelegationSegs :
                templates = [DefaultTemplates EXCEPT !.workflow = w,
                                                     !.delegation = Render(g)]
       \/ /\ env = UnsetEnv
          /\ today \in Dates
          /\ \E g \in ResearcherSegs :
                templates = [DefaultTemplates EXCEPT !.researcher = Render(g)]
    /\ NothingLoaded
    /\ InitRun

---------------------------------------------------------------------------
\* Importing the agent modules.

\* agent.py, run as a module: build the model, create the agent
LoadAgent ==
    /\ pc = "idle"
    /\ constructed["agent"] = <<>>
    /\ constructed' = [constructed EXCEPT !["agent"] = <<model>>]
    /\ created' = [created EXCEPT !["agent"] = <<AgentCreateCall>>]
    /\ UNCHANGED <<env, today, templates, runVars>>

\* agent_with_memory.py module level: build the model, the checkpointer and
\* the agent
ImportAgentWithMemory ==
    /\ constructed' = [constructed EXCEPT !["agent_with_memory"] = <<Mem_model>>]
    /\ created' = [created EXCEPT !["agent_with_memory"] = <<MemAgentCreateCall>>]
    /\ storage' = get_persistent_checkpointer(DbPath)

LoadAgentWithMemory ==
    /\ pc = "idle"
    /\ constructed["agent_with_memory"] = <<>>
    /\ ImportAgentWithMemory
    /\ UNCHANGED <<env, today, templates, script, pc, nruns, disk, earlier,
                   server, procVars>>

---------------------------------------------------------------------------
\* Process start.

ProcReset ==
    /\ runs' = <<>> /\ ran' = <<>> /\ todo' = <<>> /\ ip' = 0 /\ choice' = {}
    /\ thread_id' = <<>> /\ first_query' = FALSE /\ line' = <<>>
    /\ nlines' = 0 /\ nqlines' = 0 /\ nagent' = 0 /\ napi' = 0 /\ nlist' = 0
    /\ lastCall' = <<>> /\ printed' = 0 /\ exitStatus' = {}

\* a new python process running demo_memory.py: what the previous process
\* held in memory is gone; `from agent_with_memory import ...`
DemoProcess ==
    /\ script' = "demo" /\ pc' = "menu" /\ nruns' = nruns + 1
    /\ earlier' = storage
    /\ ImportAgentWithMemory
    /\ ProcReset
    /\ UNCHANGED <<env, today, templates, disk, server>>

\* $ python demo_memory.py
StartDemo == pc = "idle" /\ DemoProcess

\* $ python demo_memory.py, again, after the previous run of it has ended
RestartDemo ==
    /\ pc = "exited" /\ script = "demo"
    /\ nruns < MaxRuns
    /\ DemoProcess

\* $ python langgraph_client_example.py : a new process
StartClient ==
    /\ pc = "idle"
    /\ script' = "client" /\ pc' = "check" /\ nruns' = nruns + 1
    /\ ProcReset
    /\ UNCHANGED <<cfgVars, disk, storage, earlier, server>>

---------------------------------------------------------------------------
\* The two main() functions.

\* the check without sys.exit(1): the error is printed and the menu follows
CheckServer_NoExit ==
    /\ script = "client" /\ pc = "check"
    /\ \E r \in {"ok", "get_client raises", "list raises"} :
          /\ napi' = IF r = "get_client raises" THEN napi + 1 ELSE napi + 2
          /\ lastCall' = IF r = "get_client raises"
                         THEN Call("get_client", <<>>, <<>>, "raise")
                         ELSE Call("threads.list", <<>>, <<>>,
                                   IF r = "ok" THEN "ok" ELSE "raise")
          /\ nlist' = IF r = "ok" THEN nlist + 1 ELSE nlist
          /\ printed' = IF r = "ok" THEN printed ELSE printed + 1
          /\ pc' = "menu" /\ exitStatus' = exitStatus
    /\ UNCHANGED <<cfgVars, script, nruns, disk, storage, earlier, server, runs,
                   ran, todo, ip, choice, thread_id, first_query, line, nlines,
                   nqlines, nagent>>

\* langgraph_client_example.main: the try/except around get_client and
\* client.threads.list(); sys.exit(1) in the except block
CheckServer ==
    /\ script = "client" /\ pc = "check"
    /\ \E r \in {"ok", "get_client raises", "list raises"} :
          /\ napi' = IF r = "get_client raises" THEN napi + 1 ELSE napi + 2
          /\ lastCall' = IF r = "get_client raises"
                         THEN Call("get_client", <<>>, <<>>, "raise")
                         ELSE Call("threads.list", <<>>, <<>>,
                                   IF r = "ok" THEN "ok" ELSE "raise")
          /\ IF r = "ok"
             THEN /\ nlist' = nlist + 1 /\ pc' = "menu"
                  /\ UNCHANGED <<printed, exitStatus>>
             ELSE /\ printed' = printed + 1
                  /\ pc' = "exited" /\ exitStatus' = {1}
                  /\ nlist' = nlist
    /\ UNCHANGED <<cfgVars, script, nruns, disk, storage, earlier, server, runs,
                   ran, todo, ip, choice, thread_id, first_query, line, nlines,
                   nqlines, nagent>>

\* the chain with "run all" calling the interactive session too
DemoTodo_AllFour(c) ==
    IF c = <<"1">> THEN <<1>>
    ELSE IF c = <<"2">> THEN <<2>>
    ELSE IF c = <<"3">> THEN <<3>>
    ELSE IF c = <<"4">> THEN <<4>>
    ELSE IF c = <<"5">> THEN <<1, 2, 3, 4>>
    ELSE <<>>

\* demo_memory.main: the if/elif chain over `choice`
DemoTodo(c) ==
    IF c = <<"1">> THEN <<1>>
    ELSE IF c = <<"2">> THEN <<2>>
    ELSE IF c = <<"3">> THEN <<3>>
    ELSE IF c = <<"4">> THEN <<4>>
    ELSE IF c = <<"5">> THEN <<1, 2, 3>>
    ELSE <<>>

\* langgraph_client_example.main: the if/elif chain over `choice`
ClientTodo(c) ==
    IF c = <<"1">> THEN <<1>>
    ELSE IF c = <<"2">> THEN <<2>>
    ELSE IF c = <<"3">> THEN <<3>>
    ELSE IF c = <<"4">> THEN <<4>>
    ELSE IF c = <<"5">> THEN <<5>>
    ELSE IF c = <<"6">> THEN <<6>>
    ELSE IF c = <<"7">> THEN <<1, 2, 3, 4, 5>>
    ELSE <<>>

\* choice = input(...).strip() and the branch taken; 'q' and an invalid
\* choice call nothing and the process ends with status 0
Menu ==
    /\ pc = "menu"
    /\ \E raw \in MenuLines :
          LET c == Strip(raw)
              t == IF script = "demo" THEN DemoTodo(c) ELSE ClientTodo(c)
          IN  /\ choice' = {raw}
              /\ nlines' = nlines + 1
              /\ todo' = t
              /\ IF t = <<>>
                 THEN pc' = "exited" /\ exitStatus' = {0}
                 ELSE pc' = "dispatch" /\ exitStatus' = exitStatus
    /\ UNCHANGED <<cfgVars, script, nruns, disk, storage, earlier, server, runs,
                   ran, ip, thread_id, first_query, line, nqlines, nagent,
                   napi, nlist, lastCall, printed>>

\* main calls the next demo/example of the branch, or prints the closing
\* lines and returns
Dispatch ==
    /\ pc = "dispatch"
    /\ IF todo = <<>>
       THEN /\ pc' = "exited" /\ exitStatus' = {0}
            /\ UNCHANGED <<ran, todo, ip>>
       ELSE /\ ran' = Append(ran, Head(todo))
            /\ todo' = Tail(todo)
            /\ ip' = 1
            /\ pc' = IF Body(Head(todo)) # <<>> THEN "body"
                     ELSE IF Head(todo) = InteractiveNo THEN "ask_thread"
                     ELSE "dispatch"
            /\ exitStatus' = exitStatus
    /\ UNCHANGED <<cfgVars, script, nruns, disk, storage, earlier, server, runs,
                   choice, thread_id, first_query, line, nlines, nqlines,
                   nagent, napi, nlist, lastCall, printed>>

\* the statement just executed returned
Advance ==
    IF ip < Len(Body(Current))
    THEN ip' = ip + 1 /\ pc' = "body" /\ exitStatus' = exitStatus
    ELSE /\ ip' = ip /\ exitStatus' = exitStatus
         /\ pc' = IF Current = InteractiveNo THEN "ask_thread" ELSE "dispatch"

\* an exception nothing catches: traceback, exit status 1
Crash == pc' = "exited" /\ exitStatus' = {1} /\ ip' = ip

---------------------------------------------------------------------------
\* demo_memory.py: one statement of a demo.  Nothing in the demos catches
\* an exception.

DemoStatement ==
    /\ script = "demo" /\ pc = "body"
    /\ LET st == Body(Current)[ip]
       IN  \/ /\ st.fn \in {"run_new_conversation", "resume_conversation"}
              /\ \E o \in Outcomes :
                    /\ storage' = IF st.fn = "run_new_conversation"
                                  THEN run_new_conversation(st.query, st.thread, o)
                                  ELSE resume_conversation(st.thread, st.query, o)
                    /\ lastCall' = Call(st.fn, st.thread, st.query, o)
                    /\ IF o = "ok" THEN Advance ELSE Crash
           \/ /\ st.fn \in {"list_conversation_history", "get_conversation_state"}
              /\ \E o \in ReadOutcomes :
                    /\ storage' = storage
                    /\ lastCall' = Call(st.fn, st.thread, st.query, o)
                    /\ IF o = "ok" THEN Advance ELSE Crash
    /\ napi' = napi + 1
    /\ UNCHANGED <<cfgVars, script, nruns, disk, earlier, server, runs, ran,
                   todo, choice, thread_id, first_query, line, nlines, nqlines,
                   nagent, nlist, printed>>

\* langgraph_client_example.py: one statement of an example.  Nothing in
\* examples 1-5 catches an exception.
ExampleStatement ==
    /\ script = "client" /\ pc = "body"
    /\ LET st == Body(Current)[ip]
       IN  \/ /\ st.fn \in {"get_client", "threads.get_state"}
              /\ \E o \in ReadOutcomes :
                    /\ lastCall' = Call(st.fn, st.thread, st.query, o)
                    /\ IF o = "ok" THEN Advance ELSE Crash
              /\ UNCHANGED <<server, runs, nlist>>
           \/ /\ st.fn = "threads.list"
              /\ \E o \in ReadOutcomes :
                    /\ lastCall' = Call(st.fn, st.thread, st.query, o)
                    /\ nlist' = IF o = "ok" THEN nlist + 1 ELSE nlist
                    /\ IF o = "ok" THEN Advance ELSE Crash
              /\ UNCHANGED <<server, runs>>
           \/ /\ st.fn = "runs.create"
              /\ \E o \in ReadOutcomes :
                    /\ lastCall' = Call(st.fn, st.thread, st.query, o)
                    /\ runs' = IF o = "ok"
                               THEN RunsCreate(runs, st.thread, st.query)
                               ELSE runs
                    /\ IF o = "ok" THEN Advance ELSE Crash
              /\ UNCHANGED <<server, nlist>>
           \/ /\ st.fn = "runs.wait"
              /\ \E o \in Outcomes :
                    LET i == Len(runs)
                    IN  /\ lastCall' = Call(st.fn, runs[i].thread, runs[i].query, o)
                        /\ server' = AgentInvoke(server, runs[i].thread,
                                                 runs[i].query, o)
                        /\ runs' = IF o = "ok" THEN RunsWait(runs, i)
                                   ELSE RunsFail(runs, i)
                        /\ IF o = "ok" THEN Advance ELSE Crash
              /\ UNCHANGED nlist
           \/ /\ st.fn = "runs.stream"
              /\ \E o \in ReadOutcomes :
                    /\ lastCall' = Call(st.fn, st.thread, st.query,
                                        IF o = "ok" THEN "running" ELSE o)
                    /\ runs' = IF o = "ok"
                               THEN RunsCreate(runs, st.thread, st.query)
                               ELSE runs
                    /\ IF o = "ok"
                       THEN pc' = "streaming" /\ ip' = ip
                            /\ exitStatus' = exitStatus
                       ELSE Crash
              /\ UNCHANGED <<server, nlist>>
           \/ /\ st.fn = "threads.delete"
              /\ \E o \in ReadOutcomes :
                    /\ lastCall' = Call(st.fn, st.thread, st.query, o)
                    /\ server' = IF o = "ok" THEN ThreadsDelete(server, st.thread)
                                 ELSE server
                    /\ IF o = "ok" THEN Advance ELSE Crash
              /\ UNCHANGED <<runs, nlist>>
    /\ napi' = napi + 1
    /\ UNCHANGED <<cfgVars, script, nruns, disk, storage, earlier, ran, todo,
                   choice, thread_id, first_query, line, nlines, nqlines,
                   nagent, printed>>

\* example_streaming: the for loop over client.runs.stream(...) ends, or
\* raises
ExampleStreamEnd ==
    /\ script = "client" /\ pc = "streaming" /\ Current # InteractiveNo
    /\ \E o \in Outcomes :
          LET i == Len(runs)
          IN  /\ lastCall' = Call("runs.stream", runs[i].thread, runs[i].query, o)
              /\ server' = AgentInvoke(server, runs[i].thread, runs[i].query, o)
              /\ runs' = IF o = "ok" THEN RunsWait(runs, i) ELSE RunsFail(runs, i)
              /\ IF o = "ok" THEN Advance ELSE Crash
    /\ UNCHANGED <<cfgVars, script, nruns, disk, storage, earlier, ran, todo,
                   choice, thread_id, first_query, line, nlines, nqlines,
                   nagent, napi, nlist, printed>>

---------------------------------------------------------------------------
\* The interactive loops.

DefaultThread == IF script = "demo" THEN <<"interactive-001">>
                 ELSE <<"interactive-session">>

\* thread_id = input(...).strip(); the default when it is empty; demo_memory
\* sets first_query = True before the loop
AskThread ==
    /\ pc = "ask_thread"
    /\ \E raw \in ThreadLines :
          /\ line' = raw
          /\ thread_id' = IF Strip(raw) = <<>> THEN DefaultThread ELSE Strip(raw)
    /\ nlines' = nlines + 1
    /\ first_query' = (script = "demo")
    /\ pc' = "prompt"
    /\ UNCHANGED <<cfgVars, script, nruns, disk, storage, earlier, server, runs,
                   ran, todo, ip, choice, nqlines, nagent, napi, nlist,
                   lastCall, printed, exitStatus>>

\* a line that is sent to the agent: not empty and not a command
IsQueryLine(raw) ==
    /\ Strip(raw) # <<>>
    /\ Lower(Strip(raw)) \notin {QuitWord, StateWord, HistoryWord}

\* query = input(...).strip()
ReadInput(raw) ==
    /\ line' = raw
    /\ nlines' = nlines + 1
    /\ nqlines' = nqlines + (IF IsQueryLine(raw) THEN 1 ELSE 0)

\* `continue` on an empty line
LineContinue ==
    /\ pc' = "prompt"
    /\ UNCHANGED <<storage, server, runs, first_query, nagent, napi, lastCall,
                   printed, exitStatus, ran, todo, ip>>

\* `break` on quit: the session function returns to main
LineQuit ==
    /\ pc' = "dispatch"
    /\ UNCHANGED <<storage, server, runs, first_query, nagent, napi, lastCall,
                   printed, exitStatus, ran, todo, ip>>

\* demo_memory: list_conversation_history / get_conversation_state, called
\* outside the try block
DemoRead(fn) ==
    /\ \E o \in ReadOutcomes :
          /\ lastCall' = Call(fn, thread_id, <<>>, o)
          /\ IF o = "ok" THEN pc' = "prompt" /\ exitStatus' = exitStatus /\ ip' = ip
             ELSE Crash
    /\ napi' = napi + 1
    /\ UNCHANGED <<storage, server, runs, first_query, nagent, printed, ran, todo>>

\* the calls made without the try block: an exception ends the script
DemoSendQuery_NoTry(query) ==
    /\ \E o \in Outcomes :
          /\ storage' = IF first_query
                        THEN run_new_conversation(query, thread_id, o)
                        ELSE resume_conversation(thread_id, query, o)
          /\ lastCall' = Call(IF first_query THEN "run_new_conversation"
                              ELSE "resume_conversation", thread_id, query, o)
          /\ first_query' = IF o = "ok" THEN FALSE ELSE first_query
          /\ IF o = "ok" THEN pc' = "prompt" /\ exitStatus' = exitStatus /\ ip' = ip
             ELSE Crash
    /\ nagent' = nagent + 1
    /\ napi' = napi + 1
    /\ UNCHANGED <<server, runs, printed, ran, todo>>

\* the flag cleared before the call instead of after it returned
DemoSendQuery_FlagFirst(query) ==
    /\ \E o \in Outcomes :
          /\ storage' = IF first_query
                        THEN run_new_conversation(query, thread_id, o)
                        ELSE resume_conversation(thread_id, query, o)
          /\ lastCall' = Call(IF first_query THEN "run_new_conversation"
                              ELSE "resume_conversation", thread_id, query, o)
          /\ first_query' = FALSE
          /\ printed' = IF o = "ok" THEN printed ELSE printed + 1
    /\ nagent' = nagent + 1
    /\ napi' = napi + 1
    /\ pc' = "prompt"
    /\ UNCHANGED <<server, runs, exitStatus, ran, todo, ip>>

\* demo_memory: the try block: run_new_conversation while first_query, else
\* resume_conversation; except Exception prints the error
DemoSendQuery(query) ==
    /\ \E o \in Outcomes :
          /\ storage' = IF first_query
                        THEN run_new_conversation(query, thread_id, o)
                        ELSE resume_conversation(thread_id, query, o)
          /\ lastCall' = Call(IF first_query THEN "run_new_conversation"
                              ELSE "resume_conversation", thread_id, query, o)
          /\ first_query' = IF o = "ok" THEN FALSE ELSE first_query
          /\ printed' = IF o = "ok" THEN printed ELSE printed + 1
    /\ nagent' = nagent + 1
    /\ napi' = napi + 1
    /\ pc' = "prompt"
    /\ UNCHANGED <<server, runs, exitStatus, ran, todo, ip>>

\* the loop comparing the stripped line with the command words as typed,
\* without lower()
DemoReadLine_CaseSensitive ==
    /\ script = "demo" /\ pc = "prompt"
    /\ nlines - 2 < MaxInputs
    /\ \E raw \in InputLines :
          LET query == Strip(raw)
          IN  /\ ReadInput(raw)
              /\ IF query = <<>> THEN LineContinue
                 ELSE IF query = QuitWord THEN LineQuit
                 ELSE IF query = HistoryWord
                      THEN DemoRead("list_conversation_history")
                 ELSE IF query = StateWord
                      THEN DemoRead("get_conversation_state")
                 ELSE DemoSendQuery(query)
    /\ UNCHANGED <<cfgVars, script, nruns, disk, earlier, choice, thread_id,
                   nlist>>

\* demo_memory.interactive_session: one pass of the while loop
DemoReadLine ==
    /\ script = "demo" /\ pc = "prompt"
    /\ nlines - 2 < MaxInputs
    /\ \E raw \in InputLines :
          LET query == Strip(raw)
          IN  /\ ReadInput(raw)
              /\ IF query = <<>> THEN LineContinue
                 ELSE IF Lower(query) = QuitWord THEN LineQuit
                 ELSE IF Lower(query) = HistoryWord
                      THEN DemoRead("list_conversation_history")
                 ELSE IF Lower(query) = StateWord
                      THEN DemoRead("get_conversation_state")
                 ELSE DemoSendQuery(query)
    /\ UNCHANGED <<cfgVars, script, nruns, disk, earlier, choice, thread_id,
                   nlist>>

\* the state read made on the default thread instead of the session's
ClientRead_DefaultThread ==
    /\ \E o \in ReadOutcomes :
          /\ lastCall' = Call("threads.get_state", DefaultThread, <<>>, o)
          /\ IF o = "ok" THEN pc' = "prompt" /\ exitStatus' = exitStatus /\ ip' = ip
             ELSE Crash
    /\ napi' = napi + 1
    /\ UNCHANGED <<storage, server, runs, first_query, nagent, printed, ran, todo>>

\* client example: client.threads.get_state for 'state' and 'history',
\* called outside the try block
ClientRead ==
    /\ \E o \in ReadOutcomes :
          /\ lastCall' = Call("threads.get_state", thread_id, <<>>, o)
          /\ IF o = "ok" THEN pc' = "prompt" /\ exitStatus' = exitStatus /\ ip' = ip
             ELSE Crash
    /\ napi' = napi + 1
    /\ UNCHANGED <<storage, server, runs, first_query, nagent, printed, ran, todo>>

\* the except block sending the query once more after a failure
ClientSendQuery_Retry(query) ==
    /\ \E o \in ReadOutcomes :
          /\ lastCall' = Call("runs.stream", thread_id, query,
                              IF o = "ok" THEN "running" ELSE o)
          /\ runs' = RunsCreate(runs, thread_id, query)
          /\ pc' = "streaming"
          /\ printed' = IF o = "ok" THEN printed ELSE printed + 1
          /\ nagent' = IF o = "ok" THEN nagent + 1 ELSE nagent + 2
          /\ napi' = IF o = "ok" THEN napi + 1 ELSE napi + 2
    /\ UNCHANGED <<storage, server, first_query, exitStatus, ran, todo, ip>>

\* client example: the try block opens the stream; except Exception prints
ClientSendQuery(query) ==
    /\ \E o \in ReadOutcomes :
          /\ lastCall' = Call("runs.stream", thread_id, query,
                              IF o = "ok" THEN "running" ELSE o)
          /\ runs' = IF o = "ok" THEN RunsCreate(runs, thread_id, query) ELSE runs
          /\ pc' = IF o = "ok" THEN "streaming" ELSE "prompt"
          /\ printed' = IF o = "ok" THEN printed ELSE printed + 1
    /\ nagent' = nagent + 1
    /\ napi' = napi + 1
    /\ UNCHANGED <<storage, server, first_query, exitStatus, ran, todo, ip>>

\* langgraph_client_example.example_interactive: one pass of the while loop
ClientReadLine ==
    /\ script = "client" /\ pc = "prompt"
    /\ nlines - 2 < MaxInputs
    /\ \E raw \in InputLines :
          LET query == Strip(raw)
          IN  /\ ReadInput(raw)
              /\ IF query = <<>> THEN LineContinue
                 ELSE IF Lower(query) = QuitWord THEN LineQuit
                 ELSE IF Lower(query) = StateWord THEN ClientRead
                 ELSE IF Lower(query) = HistoryWord THEN ClientRead
                 ELSE ClientSendQuery(query)
    /\ UNCHANGED <<cfgVars, script, nruns, disk, earlier, choice, thread_id,
                   nlist>>

\* client example: the for loop over the stream inside the try block ends,
\* or raises and the except block prints
InteractiveStreamEnd ==
    /\ script = "client" /\ pc = "streaming" /\ Current = InteractiveNo
    /\ \E o \in Outcomes :
          LET i == Len(runs)
          IN  /\ lastCall' = Call("runs.stream", runs[i].thread, runs[i].query, o)
              /\ server' = AgentInvoke(server, runs[i].thread, runs[i].query, o)
              /\ runs' = IF o = "ok" THEN RunsWait(runs, i) ELSE RunsFail(runs, i)
              /\ printed' = IF o = "ok" THEN printed ELSE printed + 1
    /\ pc' = "prompt"
    /\ UNCHANGED <<cfgVars, script, nruns, disk, storage, earlier, ran, todo, ip,
                   choice, thread_id, first_query, line, nlines, nqlines,
                   nagent, napi, nlist, exitStatus>>

---------------------------------------------------------------------------
\* Specifications.

Next ==
    \/ StartDemo
    \/ StartClient
    \/ CheckServer
    \/ Menu
    \/ Dispatch
    \/ DemoStatement
    \/ ExampleStatement
    \/ ExampleStreamEnd
    \/ AskThread
    \/ DemoReadLine
    \/ ClientReadLine
    \/ InteractiveStreamEnd

Spec == Init /\ [][Next]_vars

NextConfig == LoadAgent \/ LoadAgentWithMemory

SpecConfig == InitConfig /\ [][NextConfig]_vars

\* one script run, and demo_memory.py run again after it has ended
NextRestart == Next \/ RestartDemo

SpecRestart == Init /\ [][NextRestart]_vars

---------------------------------------------------------------------------
\* Properties.

IsPrefix(a, b) == Len(a) <= Len(b) /\ \A i \in 1..Len(a) : a[i] = b[i]

Loaded(m) == constructed[m] # <<>>

\* text x is word w up to the letter case of each character
SameUpToCase(x, w) ==
    /\ Len(x) = Len(w)
    /\ \A i \in 1..Len(w) : x[i] = w[i] \/ x[i] = UpperChar(w[i])

\* which backend a MODEL_PROVIDER value ({} when unset) asks for
WantedBackend(v) ==
    IF \E x \in v : SameUpToCase(x, OllamaName) THEN "ollama"
    ELSE IF \E x \in v : SameUpToCase(x, AnthropicName) THEN "anthropic"
    ELSE "openrouter"

\* which backend a constructor call builds
BuiltBackend(b) ==
    IF b.ctor = "ChatOllama" THEN "ollama"
    ELSE IF b.ctor = "init_chat_model" /\ b.model[1] = "anthropic:" THEN "anthropic"
    ELSE IF b.ctor = "init_chat_model" /\ b.model_provider = {"openai"}
            /\ b.base_url = {"https://openrouter.ai/api/v1"} THEN "openrouter"
    ELSE "other"

\* C1: for every value of MODEL_PROVIDER, set or unset, each agent module
\* constructs exactly one backend: Ollama for "ollama" and Anthropic for
\* "anthropic" in any letter case, OpenRouter for every other value and when
\* unset; agent.py and agent_with_memory.py construct the same backend.
C1_ModelSelection ==
    /\ \A m \in Modules :
          Loaded(m) =>
             /\ Len(constructed[m]) = 1
             /\ BuiltBackend(constructed[m][1]) = WantedBackend(env["MODEL_PROVIDER"])
    /\ (Loaded("agent") /\ Loaded("agent_with_memory"))
          => constructed["agent"] = constructed["agent_with_memory"]

\* C1 witness: MODEL_PROVIDER=OLLAMA, both modules loaded, Ollama built
C1_Witness ==
    /\ env["MODEL_PROVIDER"] = {<<"O","L","L","A","M","A">>}
    /\ Loaded("agent") /\ Loaded("agent_with_memory")
    /\ constructed["agent"][1].ctor = "ChatOllama"

\* C7: each module makes one create_deep_agent call, with no main-agent
\* tools and one sub-agent record, "researcher", whose tools are
\* [tavily_search, think_tool]; the two calls differ only in the checkpointer,
\* which agent_with_memory.py alone passes.
C7_AgentWiring ==
    /\ \A m \in Modules :
          created[m] # <<>> =>
             /\ Len(created[m]) = 1
             /\ created[m][1].tools = <<>>
             /\ Len(created[m][1].subagents) = 1
             /\ created[m][1].subagents[1].name = "researcher"
             /\ created[m][1].subagents[1].tools = <<"tavily_search", "think_tool">>
    /\ (created["agent"] # <<>> /\ created["agent_with_memory"] # <<>>) =>
          /\ created["agent"][1].checkpointer = {}
          /\ created["agent_with_memory"][1].checkpointer # {}
          /\ created["agent"][1] =
                [created["agent_with_memory"][1] EXCEPT !.checkpointer = {}]

\* C7 witness: both agents created, under MODEL_PROVIDER=Anthropic
C7_Witness ==
    /\ created["agent"] # <<>> /\ created["agent_with_memory"] # <<>>
    /\ env["MODEL_PROVIDER"] = {<<"A","n","t","h","r","o","p","i","c">>}
    /\ env["ANTHROPIC_MODEL"] = {"custom"}

\* what a template written as segments reads after substitution
Substituted(segs, kw) ==
    Concat([i \in 1..Len(segs) |->
              IF segs[i].kind = "field" THEN kw[segs[i].tok] ELSE <<segs[i].tok>>])

DefaultDelegationSegs ==
    <<Lit("D1"), Field("max_concurrent_research_units"),
      Lit("D2"), Field("max_researcher_iterations")>>

DigitValue(c) == (CHOOSE i \in 1..10 : DigitChars[i] = c) - 1

IsDigits(s) == \A i \in 1..Len(s) : \E k \in 1..10 : DigitChars[k] = s[i]

RECURSIVE Number(_)
Number(s) == IF s = <<>> THEN 0
             ELSE 10 * Number(SubSeq(s, 1, Len(s) - 1)) + DigitValue(s[Len(s)])

\* text d is date t written YYYY-MM-DD
IsIsoDate(d, t) ==
    /\ Len(d) = 10 /\ d[5] = "-" /\ d[8] = "-"
    /\ IsDigits(SubSeq(d, 1, 4)) /\ Number(SubSeq(d, 1, 4)) = t.y
    /\ IsDigits(SubSeq(d, 6, 7)) /\ Number(SubSeq(d, 6, 7)) = t.m
    /\ IsDigits(SubSeq(d, 9, 10)) /\ Number(SubSeq(d, 9, 10)) = t.d

\* C8: the orchestrator prompt is the workflow text, a blank line, 80 '='
\* characters, a blank line and the delegation template with both limits
\* replaced by 3; the sub-agent prompt is the researcher template with the
\* date replaced by today's YYYY-MM-DD; no researcher text is in the
\* orchestrator prompt.
C8_PromptAssembly ==
    \A m \in Modules :
       created[m] # <<>> =>
          /\ \A g \in DelegationSegs \cup {DefaultDelegationSegs} :
                Render(g) = templates.delegation =>
                   created[m][1].system_prompt =
                      templates.workflow
                      \o <<"\n", "\n">>
                      \o [i \in 1..80 |-> "="]
                      \o <<"\n", "\n">>
                      \o Substituted(g, [n \in {"max_concurrent_research_units",
                                                "max_researcher_iterations"} |-> <<"3">>])
          /\ \A g \in ResearcherSegs \cup {<<Lit("R1"), Field("date"), Lit("R2")>>} :
                Render(g) = templates.researcher =>
                   \E t \in Dates \cup {today} :
                      /\ IsIsoDate(Strftime(t), today)
                      /\ created[m][1].subagents[1].system_prompt =
                            Substituted(g, [n \in {"date"} |-> Strftime(t)])
          /\ \A i \in 1..Len(created[m][1].system_prompt) :
                created[m][1].system_prompt[i] \notin {"R1", "R2", "date"}

\* C8 witness: a delegation template with a field and an escaped brace has
\* been assembled into both agents' prompts
C8_Witness ==
    /\ created["agent"] # <<>> /\ created["agent_with_memory"] # <<>>
    /\ templates.delegation =
          Render(<<Field("max_researcher_iterations"), Lit("{")>>)
    /\ templates.workflow = <<"W1", "{", "W2", "}">>

Raised(c) == c # <<>> /\ c[1].outcome \in {"raise", "raise_after_input"}

AgentFns == {"run_new_conversation", "resume_conversation", "runs.stream"}
ReadFns == {"list_conversation_history", "get_conversation_state",
            "threads.get_state"}

\* the input loop of an interactive session is running
InLoop == pc = "prompt" \/ (pc = "streaming" /\ Current = InteractiveNo)

\* this step made a framework call that raised
RaisedNow == Raised(lastCall') /\ (napi' # napi \/ lastCall' # lastCall)

\* a call on thread t returned in the previous process
AnsweredEarlier(t) ==
    \E i \in 1..Len(Get(earlier, t)) : Get(earlier, t)[i].role = "ai"

\* C2, as claimed: when demo_memory.py runs again after an earlier run held
\* a conversation on a thread, a resume_conversation on that thread that
\* returns has the earlier run's messages before its own.
C2_PersistsAcrossRestart ==
    (/\ script = "demo"
     /\ lastCall # <<>>
     /\ lastCall[1].fn = "resume_conversation"
     /\ lastCall[1].outcome = "ok"
     /\ AnsweredEarlier(lastCall[1].thread))
    => IsPrefix(Get(earlier, lastCall[1].thread), Get(storage, lastCall[1].thread))

\* C3: in the client script, when get_client or threads.list raises in the
\* connectivity check, one error is printed and the process exits with
\* status 1 having read no input, called no example and made no other
\* framework call; the menu is reached only after threads.list returned.
C3_ConnectivityCheck ==
    script = "client" =>
       /\ (pc # "check" /\ nlist = 0) =>
             /\ pc = "exited" /\ exitStatus = {1} /\ printed = 1
             /\ Raised(lastCall)
             /\ lastCall[1].fn \in {"get_client", "threads.list"}
             /\ napi <= 2
             /\ nlines = 0 /\ choice = {} /\ ran = <<>> /\ todo = <<>>
             /\ runs = <<>> /\ server = NoThreads
       /\ (pc = "menu" \/ nlines > 0 \/ ran # <<>> \/ runs # <<>>) => nlist >= 1

\* C3 witness: threads.list raised and the process has exited with status 1
C3_Witness ==
    /\ script = "client" /\ pc = "exited" /\ exitStatus = {1}
    /\ lastCall # <<>> /\ lastCall[1].fn = "threads.list" /\ Raised(lastCall)

\* C4, as claimed: in both interactive loops, whenever the handling of a
\* line raises (the agent call, or the 'state' / 'history' command), the
\* error is printed and the loop reads the next line.
C4_EveryExceptionCaught ==
    [][(InLoop /\ RaisedNow) =>
          (pc' = "prompt" /\ printed' = printed + 1 /\ exitStatus' = {})]_vars

\* C4, amended: an exception raised by the agent call for a query line is
\* caught and printed and the loop reads the next line; an exception raised
\* by the 'state' or 'history' command is not caught: nothing is printed by
\* the loop and the process ends with status 1.
C4_AgentExceptionCaught ==
    [][(InLoop /\ RaisedNow) =>
          IF lastCall'[1].fn \in AgentFns
          THEN pc' = "prompt" /\ printed' = printed + 1 /\ exitStatus' = {}
          ELSE /\ lastCall'[1].fn \in ReadFns
               /\ pc' = "exited" /\ printed' = printed /\ exitStatus' = {1}]_vars

\* C4 witness: a second query is being read after the first one's call
\* raised and was printed
C4_Witness ==
    /\ pc = "prompt" /\ printed = 1 /\ nagent = 2
    /\ lastCall # <<>> /\ lastCall[1].outcome = "ok"

\* C5: the agent calls of an interactive loop never outnumber the query
\* lines typed, and a step makes at most one agent call, and only when it
\* reads a query line.
C5_NoRetry ==
    /\ [](nagent <= nqlines)
    /\ [][/\ nagent' <= nagent + 1
          /\ nagent' = nagent + 1 =>
                (nlines' = nlines + 1 /\ IsQueryLine(line'))]_vars

\* C5 witness: two query lines were typed, two calls made, both raised
C5_Witness ==
    /\ pc = "prompt" /\ nqlines = 2 /\ nagent = 2 /\ printed = 2

\* C6: a step changes the stored state of a thread only if it is a call on
\* that thread: every other thread of the checkpointer and of the server
\* keeps its messages.
C6_ThreadIndependence ==
    [][\A t \in DOMAIN storage \cup DOMAIN storage'
                \cup DOMAIN server \cup DOMAIN server' :
          (Get(storage', t) # Get(storage, t) \/ Get(server', t) # Get(server, t))
             => (lastCall' # <<>> /\ lastCall'[1].thread = t)]_vars

\* C6 witness: demo_multiple_threads has run 'topic-ai' after 'topic-quantum'
C6_Witness ==
    /\ script = "demo" /\ pc = "body" /\ Current = 2 /\ ip = 3
    /\ Len(Get(storage, <<"topic-quantum">>)) = 2
    /\ Len(Get(storage, <<"topic-ai">>)) = 2

\* the statement an example is about to execute
NextFn == IF pc = "body" THEN Body(Current)[ip].fn ELSE "none"

\* C9: the client script has at most one run outstanding; when an example
\* creates a run, reads or deletes a thread, or lists threads, and when the
\* interactive loop reads a line, no run is outstanding; a wait follows the
\* creation of the run it waits for.
C9_OneRunAtATime ==
    script = "client" =>
       /\ Cardinality(Pending) <= 1
       /\ NextFn \in {"runs.create", "runs.stream", "threads.get_state",
                      "threads.delete", "threads.list"} => Pending = {}
       /\ NextFn = "runs.wait" => Pending = {Len(runs)}
       /\ pc \in {"prompt", "dispatch", "ask_thread"} => Pending = {}
       /\ (pc = "exited" /\ exitStatus = {0}) => Pending = {}

\* C9 witness: example_multiple_threads is about to list the threads after
\* its three runs
C9_Witness ==
    /\ script = "client" /\ ran = <<4>> /\ NextFn = "threads.list"
    /\ Len(runs) = 3 /\ \A i \in 1..3 : runs[i].status = "success"

\* what main has to call for a menu line: the "run all" number calls
\* 1..all in order, a smaller positive number calls that one
MenuPlan(raw, runAll, all) ==
    LET c == Strip(raw)
        n == IF Len(c) = 1 /\ IsDigits(c) THEN DigitValue(c[1]) ELSE 0
    IN  IF n = runAll THEN [i \in 1..all |-> i]
        ELSE IF 1 <= n /\ n < runAll THEN <<n>>
        ELSE <<>>

\* C10: after the menu, what main has called followed by what it has yet to
\* call is: demos 1,2,3 for '5' in demo_memory (never 4), examples 1..5 for
\* '7' in the client example (never 6), the one with that number for every
\* other valid number; when main returns everything planned has been called.
C10_RunAll ==
    \A raw \in choice :
       LET plan == IF script = "demo" THEN MenuPlan(raw, 5, 3)
                   ELSE MenuPlan(raw, 7, 5)
       IN  /\ ran \o todo = plan
           /\ (pc = "exited" /\ exitStatus = {0}) => ran = plan

\* C10 witness: ' 5 ' in demo_memory has run demos 1, 2, 3 and returned
C10_Witness ==
    /\ script = "demo" /\ choice = {<<" ", "5", " ">>}
    /\ ran = <<1, 2, 3>> /\ pc = "exited" /\ exitStatus = {0}

\* text q is text raw without its leading and trailing whitespace
IsStripped(q, raw) ==
    /\ q = <<>> \/ (q[1] \notin Whitespace /\ q[Len(q)] \notin Whitespace)
    /\ \E a \in 0..Len(raw) :
          /\ a + Len(q) <= Len(raw)
          /\ \A i \in 1..Len(q) : raw[a + i] = q[i]
          /\ \A i \in 1..Len(raw) :
                (i <= a \/ i > a + Len(q)) => raw[i] \in Whitespace

\* the command a typed line stands for: "empty", "quit", "state", "history",
\* or "query" for every other line
CommandOf(raw) ==
    IF IsStripped(<<>>, raw) THEN "empty"
    ELSE IF \E q \in {SubSeq(raw, a, b) : a, b \in 1..Len(raw)} :
               IsStripped(q, raw) /\ SameUpToCase(q, <<"q","u","i","t">>)
         THEN "quit"
    ELSE IF \E q \in {SubSeq(raw, a, b) : a, b \in 1..Len(raw)} :
               IsStripped(q, raw) /\ SameUpToCase(q, <<"s","t","a","t","e">>)
         THEN "state"
    ELSE IF \E q \in {SubSeq(raw, a, b) : a, b \in 1..Len(raw)} :
               IsStripped(q, raw)
               /\ SameUpToCase(q, <<"h","i","s","t","o","r","y">>)
         THEN "history"
    ELSE "query"

\* C11: in both interactive loops, a step that reads a line at the prompt
\* makes no agent call and leaves the checkpointer's and the server's
\* threads and the runs unchanged when the line is empty after stripping or
\* is quit / state / history in any letter case; the loop returns to main
\* exactly when the line is quit; every other line makes one agent call with
\* the stripped line as its query.
C11_InteractiveCommands ==
    [][(pc = "prompt" /\ nlines' = nlines + 1) =>
          LET cmd == CommandOf(line')
          IN  /\ cmd # "query" =>
                    /\ nagent' = nagent
                    /\ storage' = storage /\ server' = server /\ runs' = runs
                    /\ lastCall' = lastCall \/ lastCall'[1].fn \in ReadFns
              /\ cmd \in {"empty", "quit"} => napi' = napi
              /\ cmd \in {"state", "history"} =>
                    (napi' = napi + 1 /\ lastCall'[1].fn \in ReadFns)
              /\ (pc' = "dispatch") <=> (cmd = "quit")
              /\ cmd = "query" =>
                    /\ nagent' = nagent + 1
                    /\ lastCall'[1].fn \in AgentFns
                    /\ IsStripped(lastCall'[1].query, line')]_vars

\* C11 witness: after one query was sent, ' Quit ' has ended the loop
C11_Witness ==
    /\ script = "demo" /\ pc = "dispatch" /\ ran = <<4>>
    /\ line = <<" ", "Q", "u", "i", "t", " ">>
    /\ nagent = 1 /\ nqlines = 1

\* C12: the thread id of an interactive session is set by the step that reads
\* the "Enter thread ID" line, to the stripped line, or to 'interactive-001'
\* (demo_memory) / 'interactive-session' (client example) when nothing is
\* left after stripping; no step of the loop changes it, and every call a
\* step of the loop makes (agent call, state read, history read, run
\* created, stream consumed) is on that thread.
C12_FixedThread ==
    [][/\ (pc = "ask_thread" /\ pc' = "prompt") =>
             IF IsStripped(<<>>, line')
             THEN thread_id' = IF script = "demo" THEN <<"interactive-001">>
                               ELSE <<"interactive-session">>
             ELSE IsStripped(thread_id', line')
       /\ InLoop =>
             /\ thread_id' = thread_id
             /\ (napi' # napi \/ lastCall' # lastCall) =>
                   (lastCall' # <<>> /\ lastCall'[1].thread = thread_id)
             /\ \A i \in 1..Len(runs') : runs'[i].thread = thread_id]_vars

\* C12 witness: in the client example's session on the typed thread 't1', a
\* state read has returned after a query was streamed
C12_Witness ==
    /\ script = "client" /\ pc = "prompt" /\ thread_id = <<"t", "1">>
    /\ nagent = 1 /\ Len(runs) = 1 /\ runs[1].thread = <<"t", "1">>
    /\ lastCall # <<>> /\ lastCall[1].fn = "threads.get_state"
    /\ lastCall[1].thread = <<"t", "1">> /\ lastCall[1].outcome = "ok"

\* agent calls of the session that returned without raising
Returned == nagent - printed

\* C13: in demo_memory's interactive session, a query is sent with
\* run_new_conversation while first_query is true and with
\* resume_conversation afterwards; the flag becomes false exactly when a
\* run_new_conversation returns, stays true when it raises, and is left
\* alone by every step that sends no query; so the flag is true exactly
\* while no agent call has returned, a run_new_conversation that returned
\* is the session's first returned call, and resume_conversation is only
\* called after one.
C13_FirstQueryFlag ==
    /\ [](script = "demo" /\ pc = "prompt" =>
            /\ first_query <=> (Returned = 0)
            /\ (lastCall # <<>> /\ lastCall[1].fn = "resume_conversation") =>
                   (~first_query /\ Returned >= 1)
            /\ (lastCall # <<>> /\ lastCall[1].fn = "run_new_conversation") =>
                   Returned = (IF lastCall[1].outcome = "ok" THEN 1 ELSE 0))
    /\ [][(script = "demo" /\ pc = "prompt") =>
            IF nagent' = nagent + 1
            THEN /\ lastCall'[1].fn = IF first_query THEN "run_new_conversation"
                                      ELSE "resume_conversation"
                 /\ first_query' = (first_query /\ lastCall'[1].outcome # "ok")
            ELSE first_query' = first_query]_vars

\* C13 witness: run_new_conversation raised, the next one returned, and the
\* third query was sent with resume_conversation
C13_Witness ==
    /\ script = "demo" /\ pc = "prompt" /\ nagent = 3 /\ printed = 1
    /\ ~first_query
    /\ lastCall # <<>> /\ lastCall[1].fn = "resume_conversation"
    /\ lastCall[1].outcome = "ok"
    /\ Len(Get(storage, thread_id)) >= 4

=============================================================================
